---- MODULE Spec2Model ----
(***************************************************************************)
(* Model of FTJobOffersAPI (src/ftjoboffersapi.py): the recursive          *)
(* generator get_lazy_job_offers, the count probe get_nb_offers and the    *)
(* token-refreshing session_get, run against a nondeterministic server.    *)
(*                                                                         *)
(* Datetimes are integers counted in ticks (the sub-second resolution of   *)
(* datetime.now()); the strings of the query (minCreationDate,             *)
(* maxCreationDate) are integers counted in whole seconds, so strftime     *)
(* truncates and strptime scales.  A params dict is a function whose       *)
(* DOMAIN is its key set; dicts live in a heap and frames hold references, *)
(* so that `del params[...]` is seen by every holder of the same dict.     *)
(***************************************************************************)
EXTENDS Integers, Sequences, FiniteSets, TLC

VARIABLES
    heap,      \* the params dicts, by reference (1: the caller's dict)
    stack,     \* frames of the nested generators, innermost first
    ctl,       \* "suspended", "running", "finished", "raised" or "closed"
    exc,       \* the exception that ended the stream
    chunk,     \* the value last handed to the consumer
    now,       \* the last value datetime.now() returned
    token,     \* self.__token: 0 for None, else the number of the token
    session,   \* self._session is set
    lastReq,   \* the last HTTP request sent
    ev,        \* what the last step did
    ended,     \* the frame of the walk that ended in the last step
    probed,    \* dicts a count probe was sent for
    walked,    \* dicts a first GET was sent for
    prevWin,   \* at a yield: dict of the chunk yielded before this one
    lastWin,   \* dict of the chunk yielded last
    srv,       \* the class of server behaviours: "any" or "shrinking"
    result,    \* get_all_job_offers: the list built so far
    counts,    \* get_all_job_offers: what the count probes returned, in order
    caller,    \* the public method that was called
    sent       \* number of HTTP requests the last step sent

vars == <<heap, stack, ctl, exc, chunk, now, token, session, lastReq, ev,
          ended, probed, walked, prevWin, lastWin, srv, result, counts, caller,
          sent>>

----------------------------------------------------------------------------
(* Program constants *)

MAX_RANGE == 3000

DaySecs == 86400

DefaultMaxCreationDays == 365

(* Bounds of the model *)

TicksPerSec == 2

MaxDepth == 2

MaxZeroDepth == 3

MaxFetches == 5

MaxTokens == 2

ClockSlack == 1

MaxResult == 2

----------------------------------------------------------------------------
(* Values *)

\* None
Nil == -1

\* a header value that does not parse
Malformed == -2

\* a local variable not assigned yet
Unset == -3

Min2(a, b) == IF a <= b THEN a ELSE b

\* datetime.strptime(s, format): a second-resolution string becomes a datetime
strptime(s) == s * TicksPerSec

\* datetime.strftime(d, format): the format has no sub-second field, the
\* fraction of a second is dropped
strftime(d) == d \div TicksPerSec

\* timedelta(days=n), timedelta(seconds=n)
days(n) == n * DaySecs * TicksPerSec

seconds(n) == n * TicksPerSec

\* timedelta / 2: the quotient is rounded to the nearest tick, ties to even
HalfOf(d) ==
    LET q == d \div 2
        r == d % 2
    IN IF r = 1 /\ q % 2 = 1 THEN q + 1 ELSE q

\* dict operations
Has(p, k) == k \in DOMAIN p

DelKey(p, k) == [x \in (DOMAIN p) \ {k} |-> p[x]]

SetKey(p, k, v) == [x \in (DOMAIN p) \cup {k} |-> IF x = k THEN v ELSE p[x]]

----------------------------------------------------------------------------
(* Inputs of the call and answers of the server *)

NowSec0 == 40 * DaySecs

Now0 == strptime(NowSec0)

ClockEnd == Now0 + ClockSlack

TenAgo == NowSec0 - 10 * DaySecs

InputCalls ==
    { <<[departement |-> 42], 0>>,
      <<[departement |-> 42, maxCreationDate |-> NowSec0 - DaySecs + 3], 1>>,
      <<[minCreationDate |-> NowSec0 - 3], DefaultMaxCreationDays>>,
      <<[minCreationDate |-> TenAgo, maxCreationDate |-> TenAgo], DefaultMaxCreationDays>>,
      <<[minCreationDate |-> TenAgo, maxCreationDate |-> TenAgo + 1], DefaultMaxCreationDays>>,
      <<[minCreationDate |-> TenAgo, maxCreationDate |-> TenAgo + 4], DefaultMaxCreationDays>>,
      <<[minCreationDate |-> NowSec0 - 30 * DaySecs, maxCreationDate |-> TenAgo + 3,
         publieeDepuis |-> 10], DefaultMaxCreationDays>>,
      <<[minCreationDate |-> TenAgo + 2, maxCreationDate |-> TenAgo + 5,
         publieeDepuis |-> 10], DefaultMaxCreationDays>>,
      <<[minCreationDate |-> NowSec0 - 30 * DaySecs, maxCreationDate |-> NowSec0 - 20 * DaySecs,
         publieeDepuis |-> 10], DefaultMaxCreationDays>> }

\* Content-Range totals a HEAD response may carry (Nil: no such header)
Counts == {Nil, MAX_RANGE - 1, MAX_RANGE, 3500}

\* <<total of Content-Range, Accept-Range>> of a first 206 response
PageCases ==
    { <<320, 100>>, <<2, 1>>, <<2, 2>>, <<1, 2>>, <<2, 0>>,
      <<Nil, 1>>, <<Malformed, 1>>, <<2, Nil>>, <<2, Malformed>> }

EmptyDict == [x \in {} |-> 0]

\* bodies of a response to the query of dict id: with or without the field
\* resultats; an offer is named by the query that matched it
Bodies(id) == {EmptyDict, [resultats |-> <<id>>]}

Resp(s, b, cr, ar) == [status |-> s, body |-> b, cr |-> cr, ar |-> ar]

NoResp == Resp(0, EmptyDict, Nil, Nil)

\* responses to a GET of the search endpoint; the headers are kept only
\* where the code reads them (first = the first GET of a window)
Responses(first, id) ==
    {Resp(s, EmptyDict, Nil, Nil) : s \in {403, 500}}
    \cup {Resp(200, b, Nil, Nil) : b \in Bodies(id)}
    \cup IF first
         THEN {Resp(206, b, c[1], c[2]) : b \in Bodies(id), c \in PageCases}
         ELSE {Resp(206, b, Nil, Nil) : b \in Bodies(id)}

----------------------------------------------------------------------------
(* Frames of the generator *)

NewFrame(id, mcd, dict) ==
    [ params |-> id, maxCreationDays |-> mcd, arg |-> dict, pc |-> "probe",
      nb_offers |-> Unset, start0 |-> Nil, start_date |-> Nil, end_date |-> Nil,
      published_for_date |-> Nil, mid_date |-> Nil, params1 |-> 0, params2 |-> 0,
      first |-> NoResp, response |-> NoResp, range_end |-> Nil, range |-> Nil, range_p |-> 0,
      range_d |-> Nil, fetches |-> 0, chunks |-> 0, oks |-> 0 ]

Top == Head(stack)

\* variant: the generator runs on while the consumer holds a chunk
Running_eager == ctl \in {"running", "suspended"} /\ stack # <<>>

\* the code of the generator runs only between a next() and the yield, return
\* or exception that answers it
Running == ctl = "running" /\ stack # <<>>

----------------------------------------------------------------------------
(* Helpers of get_lazy_job_offers *)

\* variant: the ceiling itself does not split
ShouldSplit_strict(nb_offers) == nb_offers > MAX_RANGE

\* the test of the recursive branch
ShouldSplit(nb_offers) == nb_offers >= MAX_RANGE

\* variant: the right child starts at the pivot itself
RightStart_nooffset(mid_date) == strftime(mid_date)

\* minCreationDate of the right child: one second after the pivot
RightStart(mid_date) == strftime(mid_date + seconds(1))

\* variant: the key is kept
Folded_keep(p) == p

\* del params["publieeDepuis"]
Folded(p) == DelKey(p, "publieeDepuis")

\* variant: the pivot is moved one second on
MidDate_next(start_date, end_date) ==
    start_date + HalfOf(end_date - start_date) + seconds(1)

\* the pivot of the dichotomy
MidDate(start_date, end_date) == start_date + HalfOf(end_date - start_date)

\* The body of the recursive branch: the window, the publieeDepuis bound and
\* the two child dicts.  t1, t2, t3 are the values that the (up to three)
\* calls of datetime.now() return.
SplitQuery(p, mcd, t1, t2, t3) ==
    LET start0 == IF Has(p, "minCreationDate")
                  THEN strptime(p.minCreationDate) ELSE t1 - days(mcd)
        end_date == IF Has(p, "maxCreationDate")
                    THEN strptime(p.maxCreationDate) ELSE t2
        pfd == IF Has(p, "publieeDepuis") THEN t3 - days(p.publieeDepuis) ELSE Nil
        fold == Has(p, "publieeDepuis") /\ start0 < pfd
        start_date == IF fold THEN pfd ELSE start0
        q == IF fold THEN Folded(p) ELSE p
        mid_date == MidDate(start_date, end_date)
    IN [ start0 |-> start0, start_date |-> start_date, end_date |-> end_date,
         published_for_date |-> pfd, mid_date |-> mid_date, params |-> q,
         params1 |-> SetKey(SetKey(q, "minCreationDate", strftime(start_date)),
                            "maxCreationDate", strftime(mid_date)),
         params2 |-> SetKey(SetKey(q, "minCreationDate", RightStart(mid_date)),
                            "maxCreationDate", strftime(end_date)) ]

\* duration of the window a dict carries, in ticks
Duration(p) == strptime(p.maxCreationDate) - strptime(p.minCreationDate)

\* a split that strictly reduces the duration of the window
Shrinks(w) ==
    /\ Duration(w.params1) < w.end_date - w.start_date
    /\ Duration(w.params2) < w.end_date - w.start_date

\* depth to which the recursion is followed: one level more for a dict whose
\* window is a single second, down the left children of such a root
DepthCap(p) ==
    IF /\ Has(p, "minCreationDate") /\ Has(p, "maxCreationDate")
       /\ p.minCreationDate = p.maxCreationDate
       /\ \A j \in 2..Len(stack) :
             stack[j].pc = "left" /\ stack[j].start_date = stack[j].end_date
    THEN MaxZeroDepth ELSE MaxDepth

\* What remains to run once the generator of the top frame has returned and
\* been popped: a parent suspended in its first `yield from` starts the
\* generator of params2, a parent in its second `yield from` returns too.
RECURSIVE Unwind(_, _)
Unwind(s, h) ==
    IF s = <<>> THEN <<>>
    ELSE IF Head(s).pc = "left"
         THEN <<NewFrame(Head(s).params2, DefaultMaxCreationDays, h[Head(s).params2]),
                [Head(s) EXCEPT !.pc = "right"]>> \o Tail(s)
         ELSE Unwind(Tail(s), h)

\* _get_oauth_token: the saved token, or a new one when none is saved
CurrentToken == IF token = 0 THEN 1 ELSE token

\* variant: a 403 is answered by a new token, the GET is not sent again
SessionGet_noretry(first, id) ==
    {[response |-> r, token |-> IF r.status = 403 THEN CurrentToken + 1 ELSE CurrentToken,
      gets |-> 1, status1 |-> r.status, auth1 |-> CurrentToken, auth2 |-> 0,
      renewed |-> IF r.status = 403 THEN 1 ELSE 0] :
        r \in {x \in Responses(first, id) : x.status # 403 \/ CurrentToken < MaxTokens}}

\* session_get for the query of dict id: one GET with headers built from the
\* current token; on 403 a new token is fetched and saved, and the GET is sent
\* again with the same headers.  An outcome gives the response returned, the
\* token saved at the end, the number of GETs, the status of the first GET,
\* the tokens of the Authorization header of the first and of the second GET
\* (0: no second GET) and the number of tokens fetched after the first GET.
SessionGet(first, id) ==
    {[response |-> r, token |-> CurrentToken, gets |-> 1, status1 |-> r.status,
      auth1 |-> CurrentToken, auth2 |-> 0, renewed |-> 0] :
        r \in {x \in Responses(first, id) : x.status # 403}}
    \cup IF CurrentToken < MaxTokens
         THEN {[response |-> r, token |-> CurrentToken + 1, gets |-> 2, status1 |-> 403,
                auth1 |-> CurrentToken, auth2 |-> CurrentToken, renewed |-> 1] :
                  r \in Responses(first, id)}
         ELSE {}

\* the record of a request: what was sent, with which tokens, and whether
\* the first answer was 403
Request(kind, id, p, o) ==
    [kind |-> kind, id |-> id, params |-> p, tok |-> o.auth1, gets |-> o.gets,
     expired |-> (o.status1 = 403), tok2 |-> o.auth2, renewed |-> o.renewed,
     saved |-> o.token]

\* requests.head in get_nb_offers: one HEAD, headers from the current token
Head1 == [token |-> CurrentToken, gets |-> 1, status1 |-> 0, auth1 |-> CurrentToken,
          auth2 |-> 0, renewed |-> 0]

\* [l for range in ... for l in range]: the offers of one more chunk
get_all_job_offers_prepend(acc, range) == range \o acc

get_all_job_offers(acc, range) == acc \o range

\* the list grown by one chunk, kept within the bound of the model
Collect(acc, range) ==
    IF Len(acc) + Len(range) <= MaxResult THEN get_all_job_offers(acc, range) ELSE acc

Bump(n) == Min2(n + 1, MaxFetches)

IsOk(r) == r.status = 200 \/ r.status = 206

----------------------------------------------------------------------------
(* State after construction: the generator is created, nothing has run *)

InitOf(calls) ==
    /\ \E c \in calls :
          /\ heap = <<c[1]>>
          /\ stack = <<NewFrame(1, c[2], c[1])>>
    /\ ctl = "suspended"
    /\ exc = "none"
    /\ now = Now0
    /\ token = 0
    /\ session = FALSE
    /\ chunk = <<>>
    /\ lastReq = [kind |-> "none", id |-> 0, params |-> EmptyDict, tok |-> 0, gets |-> 0,
                  expired |-> FALSE, tok2 |-> 0, renewed |-> 0, saved |-> 0]
    /\ result = <<>>
    /\ counts = <<>>
    /\ sent = 0
    /\ ev = "created"
    /\ ended = <<>>
    /\ probed = {}
    /\ walked = {}
    /\ prevWin = 0
    /\ lastWin = 0

InitCall == InitOf(InputCalls) /\ caller = "get_lazy_job_offers"

Init == InitCall /\ srv = "any"

\* get_all_job_offers(params) of a dict with both dates, on any server
InitAll ==
    /\ InitOf({c \in InputCalls : DOMAIN c[1] = {"minCreationDate", "maxCreationDate"}})
    /\ caller = "get_all_job_offers"
    /\ srv = "any"

\* the same, against a server that asks for a split only where the split
\* strictly reduces the duration of the window
InitShrinking == InitCall /\ srv = "shrinking"

----------------------------------------------------------------------------
(* Steps *)

\* the consumer asks for the next chunk: the generator runs
ConsumerNext ==
    /\ ctl = "suspended"
    /\ ctl' = "running"
    /\ ev' = "next"
    /\ ended' = <<>>
    /\ prevWin' = 0
    /\ result' = IF caller = "get_all_job_offers" THEN Collect(result, chunk) ELSE result
    /\ sent' = 0
    /\ UNCHANGED <<heap, stack, exc, chunk, now, token, session, lastReq,
                   probed, walked, lastWin, srv, counts, caller>>

\* the consumer drops the generator between two chunks: it is closed at the
\* yield where it is suspended, and no code of it runs any more
ConsumerStop ==
    /\ ctl = "suspended"
    /\ ctl' = "closed"
    /\ stack' = <<>>
    /\ ev' = "close"
    /\ ended' = <<>>
    /\ prevWin' = 0
    /\ sent' = 0
    /\ UNCHANGED <<heap, exc, chunk, now, token, session, lastReq, probed, walked,
                   lastWin, srv, result, counts, caller>>

\* get_nb_offers and the branch taken on its result
Probe ==
    /\ Running /\ Top.pc = "probe"
    /\ token' = CurrentToken
    /\ lastReq' = Request("HEAD", Top.params, heap[Top.params], Head1)
    /\ sent' = Head1.gets
    /\ ended' = <<>>
    /\ probed' = probed \cup {Top.params}
    /\ \E n \in Counts :
         /\ n >= MAX_RANGE => Len(stack) < DepthCap(heap[Top.params])
         /\ counts' = IF caller = "get_all_job_offers" THEN Append(counts, n) ELSE counts
         /\ IF n = Nil
            THEN \* None >= MAX_RANGE raises TypeError
                 /\ ctl' = "raised" /\ exc' = "TypeError_None_ge_int"
                 /\ ev' = "raise"
                 /\ stack' = <<[Top EXCEPT !.pc = "raised", !.nb_offers = n]>>
                                \o Tail(stack)
                 /\ UNCHANGED <<heap, now>>
            ELSE IF ShouldSplit(n)
            THEN \E t1, t2, t3 \in now..ClockEnd :
                 /\ t1 <= t2 /\ t2 <= t3
                 /\ Has(heap[Top.params], "minCreationDate") => t1 = now
                 /\ Has(heap[Top.params], "maxCreationDate") => t2 = t1
                 /\ ~Has(heap[Top.params], "publieeDepuis") => t3 = t2
                 /\ LET w == SplitQuery(heap[Top.params], Top.maxCreationDays, t1, t2, t3)
                        id1 == Len(heap) + 1
                        id2 == Len(heap) + 2
                        parent == [Top EXCEPT !.pc = "left", !.nb_offers = n,
                                     !.start0 = w.start0,
                                     !.start_date = w.start_date,
                                     !.end_date = w.end_date,
                                     !.published_for_date = w.published_for_date,
                                     !.mid_date = w.mid_date,
                                     !.params1 = id1, !.params2 = id2]
                    IN /\ srv = "shrinking" => Shrinks(w)
                       /\ heap' = [heap EXCEPT ![Top.params] = w.params]
                                      \o <<w.params1, w.params2>>
                       /\ stack' = <<NewFrame(id1, DefaultMaxCreationDays, w.params1),
                                     parent>> \o Tail(stack)
                       /\ now' = t3
                 /\ ev' = "split"
                 /\ UNCHANGED <<ctl, exc>>
            ELSE /\ stack' = <<[Top EXCEPT !.pc = "fetch", !.nb_offers = n]>>
                                \o Tail(stack)
                 /\ ev' = "leaf"
                 /\ UNCHANGED <<heap, now, ctl, exc>>
    /\ prevWin' = 0
    /\ UNCHANGED <<chunk, session, walked, lastWin, srv, result, caller>>

\* the generator of the top frame returns: the frames that remain run on
Return(f, how) ==
    /\ stack' = Unwind(Tail(stack), heap)
    /\ ctl' = IF Unwind(Tail(stack), heap) = <<>> THEN "finished" ELSE "running"
    /\ ev' = how
    /\ ended' = <<f>>
    /\ prevWin' = 0
    /\ UNCHANGED <<exc, chunk, lastWin>>

\* an exception leaves the generator: the stream is over
Raise(f, e) ==
    /\ stack' = <<[f EXCEPT !.pc = "raised"]>> \o Tail(stack)
    /\ ctl' = "raised"
    /\ exc' = e
    /\ ev' = "raise"
    /\ ended' = <<>>
    /\ prevWin' = 0
    /\ UNCHANGED <<chunk, lastWin>>

\* variant: the failure is raised to the consumer
Abort_raises(f) == Raise(f, "HTTPError")

\* the else branch of the base case: the failure is logged, the generator
\* of this window returns
Abort(f) == Return(f, "abort")

\* yield response.json()["resultats" if "resultats" in ... else []]:
\* without the field the subscript is the list [], which is unhashable
Yield(f, pc) ==
    IF Has(f.response.body, "resultats")
    THEN /\ stack' = <<[f EXCEPT !.pc = pc, !.chunks = Bump(@)]>> \o Tail(stack)
         /\ ctl' = "suspended"
         /\ chunk' = f.response.body.resultats
         /\ ev' = "yield"
         /\ ended' = <<>>
         /\ prevWin' = lastWin
         /\ lastWin' = f.params
         /\ UNCHANGED exc
    ELSE Raise(f, "TypeError_unhashable_list")

\* the base case up to its first yield: the first GET of the window
FirstGet ==
    /\ Running /\ Top.pc = "fetch"
    /\ \E o \in SessionGet(TRUE, Top.params) :
         LET f == [Top EXCEPT !.response = o.response, !.first = o.response,
                              !.fetches = Bump(@),
                              !.oks = IF IsOk(o.response) THEN Bump(@) ELSE @]
         IN /\ token' = o.token
            /\ lastReq' = Request("GET", Top.params, heap[Top.params], o)
            /\ sent' = o.gets
            /\ IF o.response.status = 200 THEN Yield(f, "after200")
               ELSE IF o.response.status = 206 THEN Yield(f, "after206")
               ELSE Abort(f)
    /\ session' = TRUE
    /\ walked' = walked \cup {Top.params}
    /\ UNCHANGED <<heap, now, probed, srv, result, counts, caller>>

\* resumed after the chunk of a 200 response: nothing is left to do
Return200 ==
    /\ Running /\ Top.pc = "after200"
    /\ Return(Top, "return")
    /\ sent' = 0
    /\ UNCHANGED <<heap, now, token, session, lastReq, probed, walked, srv,
                   result, counts, caller>>

\* resumed after the first chunk of a 206 response: the paging headers
ReadRange ==
    /\ Running /\ Top.pc = "after206"
    /\ IF Top.first.cr = Nil
       THEN Raise(Top, "AttributeError_None_split")
       ELSE IF Top.first.cr = Malformed
       THEN Raise(Top, "ValueError_Content_Range")
       ELSE IF Top.first.ar = Nil
       THEN Raise(Top, "TypeError_int_None")
       ELSE IF Top.first.ar = Malformed
       THEN Raise(Top, "ValueError_Accept_Range")
       ELSE /\ stack' = <<[Top EXCEPT !.pc = "loop",
                                      !.range_end = Top.first.cr,
                                      !.range = Top.first.ar,
                                      !.range_p = 0,
                                      !.range_d = Top.first.ar - 1]>> \o Tail(stack)
            /\ ev' = "range"
            /\ ended' = <<>>
            /\ prevWin' = 0
            /\ UNCHANGED <<ctl, exc, chunk, lastWin>>
    /\ sent' = 0
    /\ UNCHANGED <<heap, now, token, session, lastReq, probed, walked, srv,
                   result, counts, caller>>

\* one iteration of the while loop: the range advances, one more GET
LoopFetch ==
    /\ Running /\ Top.pc = "loop"
    /\ Top.range_d < Top.range_end
    /\ \E o \in SessionGet(FALSE, Top.params) :
         LET f == [Top EXCEPT !.response = o.response,
                              !.range_p = @ + Top.range,
                              !.range_d = IF @ + Top.range <= Top.range_end
                                          THEN @ + Top.range ELSE Top.range_end,
                              !.fetches = Bump(@),
                              !.oks = IF IsOk(o.response) THEN Bump(@) ELSE @]
         IN /\ token' = o.token
            /\ lastReq' = Request("GET", Top.params, heap[Top.params], o)
            /\ sent' = o.gets
            /\ IF ~IsOk(o.response)
               THEN \* logged, `continue`
                    /\ stack' = <<f>> \o Tail(stack)
                    /\ ev' = "skip"
                    /\ ended' = <<>>
                    /\ prevWin' = 0
                    /\ UNCHANGED <<ctl, exc, chunk, lastWin>>
               ELSE Yield(f, "loop")
    /\ UNCHANGED <<heap, now, session, probed, walked, srv, result, counts, caller>>

\* the while condition fails: the generator returns
LoopExit ==
    /\ Running /\ Top.pc = "loop"
    /\ ~(Top.range_d < Top.range_end)
    /\ Return(Top, "return")
    /\ sent' = 0
    /\ UNCHANGED <<heap, now, token, session, lastReq, probed, walked, srv,
                   result, counts, caller>>

\* the stream with a consumer that asks for chunk after chunk
Consumed ==
    \/ ConsumerNext
    \/ Probe
    \/ FirstGet
    \/ Return200
    \/ ReadRange
    \/ LoopFetch
    \/ LoopExit

Next ==
    \/ Consumed
    \/ ConsumerStop

Spec == Init /\ [][Next]_vars

\* the list comprehension of get_all_job_offers consumes the stream
SpecAll == InitAll /\ [][Consumed]_vars

\* a consumer that consumes the whole stream, a server as in InitShrinking
FairSpec == InitShrinking /\ [][Consumed]_vars /\ WF_vars(Consumed)

----------------------------------------------------------------------------
(* Properties *)

Frames == {stack[i] : i \in 1..Len(stack)}

\* frames whose generator took the recursive branch
SplitFrames == {f \in Frames : f.params1 # 0}

WholeSecond(d) == strptime(strftime(d)) = d

\* second t lies in the window of dict p
InWindow(t, p) == p.minCreationDate <= t /\ t <= p.maxCreationDate

\* C1: a probe that returns an integer n leads to a split iff n >= MAX_RANGE;
\* below MAX_RANGE nothing is split and the search endpoint is fetched with
\* the params dict as it was passed in.
C1_SplitIffCeiling ==
    /\ \A f \in Frames :
         /\ f.nb_offers >= 0 =>
               /\ (f.nb_offers >= MAX_RANGE) <=> (f.params1 # 0 /\ f.params2 # 0)
               /\ (f.nb_offers >= MAX_RANGE) <=> (f.pc \in {"left", "right"})
         /\ (f.nb_offers >= 0 /\ f.nb_offers < MAX_RANGE) =>
               /\ heap[f.params] = f.arg
               /\ f.fetches > 0 => f.params \in walked
    /\ lastReq.kind = "GET" =>
         /\ \A f \in Frames : f.params = lastReq.id =>
               f.nb_offers >= 0 /\ f.nb_offers < MAX_RANGE /\ lastReq.params = f.arg
         /\ ended # <<>> =>
               /\ ended[1].nb_offers >= 0 /\ ended[1].nb_offers < MAX_RANGE
               /\ ended[1].params1 = 0
               /\ ended[1].params = lastReq.id => lastReq.params = ended[1].arg

\* C1 witness: the root was split on a count of exactly MAX_RANGE and its
\* left child, probed at MAX_RANGE - 1, was fetched with its own params
C1_Witness ==
    /\ Len(stack) = 2 /\ ev = "yield"
    /\ stack[2].nb_offers = MAX_RANGE /\ stack[2].pc = "left"
    /\ stack[1].nb_offers = MAX_RANGE - 1 /\ stack[1].fetches = 1
    /\ lastReq.kind = "GET" /\ lastReq.params = stack[1].arg

\* C2: when a window [start, end] of whole seconds with start <= end is
\* split, every second of it lies in exactly one child window, and no child
\* window holds a second outside it.
C2_PartitionCoverage ==
    \A f \in SplitFrames :
       (WholeSecond(f.start_date) /\ WholeSecond(f.end_date)
          /\ f.start_date <= f.end_date) =>
       LET S == strftime(f.start_date)
           E == strftime(f.end_date)
           l == heap[f.params1]
           r == heap[f.params2]
       IN /\ \A t \in (S - 2)..(E + 2) :
                /\ ~(InWindow(t, l) /\ InWindow(t, r))
                /\ (InWindow(t, l) \/ InWindow(t, r)) <=> (S <= t /\ t <= E)
          /\ l.minCreationDate <= l.maxCreationDate =>
                S <= l.minCreationDate /\ l.maxCreationDate <= E
          /\ r.minCreationDate <= r.maxCreationDate =>
                S <= r.minCreationDate /\ r.maxCreationDate <= E

\* C2 witness: a split window of whole seconds and odd duration, whose pivot
\* falls between two seconds
C2_Witness ==
    \E f \in SplitFrames :
       /\ WholeSecond(f.start_date) /\ WholeSecond(f.end_date)
       /\ strftime(f.end_date) - strftime(f.start_date) = 3
       /\ ~WholeSecond(f.mid_date)

\* frames of walks: those on the stack and the one that just ended
WalkFrames == {f \in Frames : f.fetches > 0} \cup {ended[i] : i \in 1..Len(ended)}

\* the walk of frame f is over
WalkOver(f) == f.pc = "raised" \/ f \in {ended[i] : i \in 1..Len(ended)}

\* C3: after a split nothing is requested for the right child before the
\* generator of the left child is exhausted, and each chunk comes from a
\* window that starts no earlier than the window of the chunk before it.
C3_DepthFirstOrdered ==
    /\ \A f \in SplitFrames :
          f.pc = "left" => f.params2 \notin probed \cup walked
    /\ (ev = "yield" /\ prevWin # 0 /\ prevWin # lastWin) =>
          heap[prevWin].minCreationDate <= heap[lastWin].minCreationDate

\* C4: against a server that asks for a split only where the split strictly
\* reduces the duration of the window, a stream that is consumed to its end
\* finishes.
C4_Terminates == <>(ctl \in {"finished", "raised"})

\* C5: a probe without Content-Range gives None and the stream consuming it
\* does not raise.
C5_UnknownCountNoCrash ==
    \A f \in Frames : f.nb_offers = Nil => (f.pc # "raised" /\ ctl # "raised")

\* C6: a window whose first GET returns 200 yields exactly one chunk and is
\* not fetched again; without the field resultats the chunk is empty and
\* nothing is raised.
C6_Status200OneChunk ==
    \A f \in WalkFrames : f.first.status = 200 =>
       /\ f.pc # "raised"
       /\ f.fetches = 1 /\ f.chunks = 1
       /\ ~Has(f.first.body, "resultats") => chunk = <<>>

\* number of GETs of a walk of total T and page size R >= 1
ExpectedFetches(T, R) ==
    IF R - 1 >= T THEN 1 ELSE 1 + ((T - (R - 1)) + (R - 1)) \div R

\* the first response of f is a 206 whose two paging headers parse
Paged(f) == f.first.status = 206 /\ f.first.cr >= 0 /\ f.first.ar >= 0

\* C7: a walk whose first GET returns 206 with page size R and total T starts
\* with range_d = R - 1, each iteration sets range_d to min(range_d + R, T)
\* and sends one GET; with T = 320 and R = 100 the walk sends 4 GETs.
C7_PagingArithmetic ==
    \A f \in WalkFrames : Paged(f) =>
       /\ (f.pc = "loop" /\ f.range_p = 0) => f.range_d = f.first.ar - 1
       /\ (f.pc = "loop" /\ f.range_p > 0) =>
             f.range_d = Min2(f.range_p + f.first.ar - 1, f.first.cr)
       /\ (f.pc = "loop" /\ f.fetches < MaxFetches /\ f.first.ar > 0) =>
             f.range_p = (f.fetches - 1) * f.first.ar
       /\ (WalkOver(f) /\ f.first.cr = 320 /\ f.first.ar = 100) => f.fetches = 4

\* C8: a later response that is neither 200 nor 206 yields nothing and the
\* walk goes on; the walk sends the same number of GETs whatever the later
\* statuses, and yields as many chunks as it got 200 and 206 responses.
C8_LogAndSkip ==
    /\ ev = "skip" =>
          /\ ctl = "running" /\ Top.pc = "loop"
          /\ ~IsOk(Top.response)
          /\ Top.fetches < MaxFetches => Top.chunks < Top.fetches
    /\ \A f \in WalkFrames : f.first.status = 206 =>
          /\ ((WalkOver(f) \/ ctl = "suspended") /\ f.fetches < MaxFetches) =>
                f.chunks = f.oks
          /\ (WalkOver(f) /\ Paged(f) /\ f.first.ar >= 1
                /\ ExpectedFetches(f.first.cr, f.first.ar) < MaxFetches) =>
                f.fetches = ExpectedFetches(f.first.cr, f.first.ar)

\* C9: a first GET that returns neither 200 nor 206 yields nothing and ends
\* the walk of its window with one GET; the stream goes on with the sibling,
\* and a stream that finishes has probed every window and fetched every
\* window that was not split.
C9_WindowAbort ==
    /\ \A f \in WalkFrames : ~IsOk(f.first) => (ended = <<f>> /\ ev = "abort")
    /\ ev = "abort" =>
          /\ Len(ended) = 1
          /\ ended[1].chunks = 0 /\ ended[1].fetches = 1
          /\ ~IsOk(ended[1].first)
          /\ lastWin # ended[1].params
          /\ exc = "none"
          /\ \A f \in Frames : f.params # ended[1].params
          /\ ctl = "finished" <=> stack = <<>>
          /\ ctl = "running" <=>
                /\ Len(stack) >= 2
                /\ Top.pc = "probe" /\ Top.fetches = 0
                /\ stack[2].pc = "right" /\ stack[2].params2 = Top.params
                /\ stack[2].params1 < Top.params
                /\ Top.params \notin probed
    /\ ctl = "finished" =>
          /\ probed = 1..Len(heap)
          /\ Cardinality(walked) = (Len(heap) + 1) \div 2

\* C9 witness: the walk of a left child was abandoned and the right child is
\* about to be probed
C9_Witness ==
    /\ ev = "abort" /\ ctl = "running"
    /\ Len(stack) = 2 /\ Top.pc = "probe"
    /\ ended[1].params = stack[2].params1

\* C10: when a split query carries publieeDepuis and now - publieeDepuis days
\* is later than the start of its window, the window that is split starts
\* there and no child dict has the key publieeDepuis.
C10_PublieeDepuisFolded ==
    \A f \in SplitFrames :
       (Has(f.arg, "publieeDepuis") /\ f.published_for_date > f.start0) =>
          /\ f.start_date = f.published_for_date
          /\ heap[f.params1].minCreationDate = strftime(f.published_for_date)
          /\ ~Has(heap[f.params1], "publieeDepuis")
          /\ ~Has(heap[f.params2], "publieeDepuis")

\* C10 witness: publieeDepuis = 10 with a minCreationDate 30 days back was
\* split, the left child starts 10 days back
C10_Witness ==
    \E f \in SplitFrames :
       /\ Has(f.arg, "publieeDepuis") /\ f.arg.publieeDepuis = 10
       /\ f.arg.minCreationDate = NowSec0 - 30 * DaySecs
       /\ f.start_date <= f.end_date
       /\ heap[f.params1].minCreationDate = TenAgo
       /\ f.pc = "right"

\* number of offers of s fetched with dict id
CountOf(s, id) == Cardinality({i \in 1..Len(s) : s[i] = id})

\* C11: the list get_all_job_offers builds is the chunks of the stream in
\* yield order; when the root probe returns 3500 and both child probes less
\* than 3000, the finished call has split once, sent three probes (root, left,
\* right), walked each child once and returns the offers of the left child
\* followed by those of the right child.
C11_FullMaterialization ==
    /\ (ctl # "suspended" /\ result # <<>> /\ Len(result) < MaxResult) =>
          result[Len(result)] = lastWin
    /\ \A i \in 1..Len(result) : result[i] \in walked
    /\ (stack # <<>> /\ Top.fetches > 0 /\ Len(result) < MaxResult /\ ctl # "raised") =>
          CountOf(result \o (IF ctl = "suspended" THEN chunk ELSE <<>>), Top.params)
             = Top.chunks
    /\ (Len(counts) >= 3 /\ counts[1] = 3500
          /\ counts[2] \in 0..(MAX_RANGE - 1) /\ counts[3] \in 0..(MAX_RANGE - 1)) =>
          /\ Len(heap) = 3 /\ Len(counts) = 3
          /\ probed = {1, 2, 3}
          /\ walked \subseteq {2, 3}
          /\ ctl = "finished" =>
                /\ walked = {2, 3}
                /\ \A i \in 1..Len(result) : result[i] \in {2, 3}
                /\ \A i, j \in 1..Len(result) :
                      (result[i] = 2 /\ result[j] = 3) => i < j

\* C11 witness: root probe 3500, two leaf children, each answered 200 with
\* one offer: the call returns the offer of the left child, then the right one
C11_Witness ==
    /\ ctl = "finished" /\ counts = <<3500, MAX_RANGE - 1, MAX_RANGE - 1>>
    /\ result = <<2, 3>>

\* C12: a request (count probe or GET) is sent only by a step taken while
\* the consumer waits for the next chunk: none while the generator is
\* suspended at a yield, none once the consumer has dropped it.
C12_Laziness ==
    [][/\ sent' > 0 => ctl = "running"
       /\ ctl = "suspended" => (sent' = 0 /\ lastReq' = lastReq /\ heap' = heap)
       /\ ctl = "closed" => (sent' = 0 /\ lastReq' = lastReq /\ ctl' = "closed")]_vars

\* C12 witness: the consumer stopped after the first chunk of a paged walk
\* that the range headers say is not over
C12_Witness ==
    /\ ctl = "closed" /\ ev = "close"
    /\ chunk # <<>> /\ lastReq.kind = "GET"
    /\ walked # {} /\ Cardinality(probed) < Len(heap)

\* the window of dict p is not inverted
Ordered(p) == p.minCreationDate <= p.maxCreationDate

\* C13: every child dict a split builds has minCreationDate <= maxCreationDate.
C13_WindowInvariant ==
    \A f \in SplitFrames : Ordered(heap[f.params1]) /\ Ordered(heap[f.params2])

\* the window frame f split has start = end
ZeroDuration(f) == f.params1 # 0 /\ f.start_date = f.end_date

\* C14: a split of a window with start = end gives the left child the window
\* of the parent; as long as the server reports MAX_RANGE or more for it, every
\* generator below splits the same window again: only count probes are sent,
\* no chunk is yielded and nothing is raised.
C14_ZeroDurationNoProgress ==
    \A i \in 1..Len(stack) :
       LET f == stack[i]
           l == heap[f.params1]
       IN ZeroDuration(f) =>
            /\ l.minCreationDate = strftime(f.start_date)
            /\ l.maxCreationDate = strftime(f.end_date)
            /\ (Has(f.arg, "minCreationDate") /\ Has(f.arg, "maxCreationDate")
                  /\ f.start_date = f.start0) =>
                  (l = heap[f.params] /\ l = f.arg)
            /\ (f.pc = "left" /\ i > 1) =>
                  (stack[i - 1].params = f.params1 /\ stack[i - 1].arg = l)
            /\ (f.pc = "left" /\ \A j \in 1..(i - 1) : stack[j].pc \in {"probe", "left"}) =>
                  /\ ctl = "running"
                  /\ \A j \in 1..(i - 1) :
                        /\ stack[j].arg = l
                        /\ stack[j].fetches = 0 /\ stack[j].chunks = 0
                        /\ stack[j].params \notin walked
                        /\ lastWin # stack[j].params
                        /\ stack[j].pc = "left" =>
                              (ZeroDuration(stack[j]) /\ stack[j].nb_offers >= MAX_RANGE)
                        /\ stack[j].pc = "probe" => j = 1

\* C14 witness: a one-second window was split, and its left child, the same
\* window, was split again
C14_Witness ==
    /\ Len(stack) >= 3
    /\ ZeroDuration(stack[Len(stack)]) /\ ZeroDuration(stack[Len(stack) - 1])
    /\ stack[Len(stack)].pc = "left" /\ stack[Len(stack) - 1].pc = "left"
    /\ heap[stack[Len(stack) - 1].params1] = stack[Len(stack)].arg

\* the dicts the caller may pass
InputDicts == {c[1] : c \in InputCalls}

\* C15: the two child dicts of a split are copies of their own, a left child
\* that runs leaves the dict of the right child as the split built it, and the
\* dict the caller passed keeps its keys and values.
C15_ValueSemantics ==
    /\ \A f \in SplitFrames :
          /\ Cardinality({f.params, f.params1, f.params2}) = 3
          /\ heap[f.params2] =
                SetKey(SetKey(heap[f.params], "minCreationDate", RightStart(f.mid_date)),
                       "maxCreationDate", strftime(f.end_date))
          /\ \A g \in Frames : g.params = f.params2 => g.arg = heap[f.params2]
    /\ \A f \in Frames : f.params = 1 => heap[1] = f.arg
    /\ heap[1] \in InputDicts

\* C16: no child dict of a split query that carries publieeDepuis has the key
\* publieeDepuis.
C16_PublieeDepuisAlwaysRemoved ==
    \A f \in SplitFrames : Has(f.arg, "publieeDepuis") =>
       (~Has(heap[f.params1], "publieeDepuis") /\ ~Has(heap[f.params2], "publieeDepuis"))

\* the frame whose session_get call the last step made
Caller == IF ended # <<>> THEN ended[1] ELSE Top

\* C17: a session_get call sends one GET, or two when the first answer is 403;
\* in that case it fetches one new token between the two, and it returns the
\* second answer whatever its status; an answer 403 is returned only as a
\* second answer.
C17_TokenExpiry ==
    /\ sent <= 2
    /\ lastReq.kind = "GET" =>
          /\ lastReq.gets \in {1, 2}
          /\ lastReq.expired <=> lastReq.gets = 2
          /\ lastReq.expired => (lastReq.renewed = 1 /\ lastReq.saved = lastReq.tok + 1)
          /\ ~lastReq.expired => (lastReq.renewed = 0 /\ lastReq.saved = lastReq.tok)
          /\ token = lastReq.saved
    /\ (sent > 0 /\ lastReq.kind = "GET") =>
          /\ sent = lastReq.gets
          /\ Caller.response.status = 403 => (sent = 2 /\ lastReq.expired)
          /\ (Caller.response.status = 403 /\ Caller.fetches = 1) =>
                (ev = "abort" /\ Caller.chunks = 0)

\* C17 witness: the first GET of a window was answered 403 twice; the second
\* 403 was returned and the walk abandoned
C17_Witness ==
    /\ ev = "abort" /\ sent = 2 /\ lastReq.expired
    /\ ended[1].first.status = 403
    /\ token = 2

\* C18: the GET sent again after a 403 carries the token fetched after that
\* 403, and every request carries the token that is saved when it is sent.
C18_RetryUsesNewToken ==
    /\ (lastReq.kind = "GET" /\ lastReq.gets = 2) =>
          (lastReq.tok2 = lastReq.saved /\ lastReq.tok2 # lastReq.tok)
    /\ (lastReq.kind # "none" /\ lastReq.gets = 1) => lastReq.tok = token

\* ceil(T / R) for R >= 1
CeilDiv(T, R) == (T + R - 1) \div R

\* C19: a 206 walk of total T >= 1 and page size R >= 1 that runs to its end
\* has sent ceil(T / R) GETs, and never more; a walk with page size 0 does not
\* stay in its loop.
C19_NoSuperfluousFetch ==
    \A f \in WalkFrames :
       (Paged(f) /\ f.first.cr >= 1 /\ f.fetches < MaxFetches) =>
          /\ f.first.ar >= 1 => f.fetches <= CeilDiv(f.first.cr, f.first.ar)
          /\ (f.first.ar >= 1 /\ ev = "return" /\ ended = <<f>>) =>
                f.fetches = CeilDiv(f.first.cr, f.first.ar)
          /\ (f.first.ar = 0 /\ f.pc = "loop") => ~(f.range_d < f.range_end)

\* the headers of a first 206 response that the paging code cannot read
BadRange(r) == r.status = 206 /\ (r.cr \in {Nil, Malformed} \/ r.ar \in {Nil, Malformed})

\* C20: a window whose first response is a 206 (with its offers) whose
\* Content-Range or Accept-Range is missing or malformed raises nothing,
\* yields its first chunk only and is then left for the next window.
C20_BadRangeContained ==
    \A f \in WalkFrames :
       (BadRange(f.first) /\ Has(f.first.body, "resultats")) =>
          /\ f.pc # "raised" /\ ctl # "raised"
          /\ f.chunks <= 1 /\ f.fetches <= 1

====
